---- MODULE Spec2Model ----
(***************************************************************************)
(* A model of MINIX_File_System.py: the command line tool that lists,      *)
(* reads, creates and appends to files of a Minix filesystem image.        *)
(*                                                                         *)
(* The image file is modelled byte for byte, as the sequence img of its    *)
(* 1024-byte blocks.  Every access of the program is a seek followed by a  *)
(* read or a write, modelled by ReadAt and WriteAt.  One action of the     *)
(* model is one run of the tool (one command on the image).                *)
(***************************************************************************)
EXTENDS Integers, Sequences, FiniteSets, TLC

VARIABLES img, pre, result, allocated, clock

vars == <<img, pre, result, allocated, clock>>

(***************************************************************************)
(* Program constants (MINIX_File_System.py, lines 11-26).                  *)
(***************************************************************************)
BLOCK_SIZE == 1024
INODE_SIZE == 32
BOOT_BLOCK == 1
SUPER_BLOCK == 1
EMPTY == 0
MAX_FILENAME_SHORT == 14
MAX_FILENAME_LONG == 30
NUM_DIRECT_ZONES == 7
INDIRECT_ZONE_INDEX == 7
DOUBLE_INDIRECT_ZONE_INDEX == 8
S_IFREG == 32768
S_IFDIR == 16384
S_IRUSR == 256
S_IWUSR == 128
S_IXUSR == 64
\* __main__: sb_dict["magic"] == 0x138F
MAGIC_LONG == 5007

(***************************************************************************)
(* Bounds of the model.                                                    *)
(***************************************************************************)
\* number of inodes of the images (superblock field num_inodes)
NumInodes == 6
\* number of commands run on one image
MaxOps == 2

\* the python value None
None == -1

Min(a, b) == IF a < b THEN a ELSE b

\* F(e), with e evaluated once
Once(e, F(_)) == CHOOSE r \in {F(x) : x \in {e}} : TRUE

(***************************************************************************)
(* struct.pack / struct.unpack, little endian.                             *)
(***************************************************************************)
PackH(v) == <<v % 256, v \div 256>>

PackI(v) == <<v % 256, (v \div 256) % 256, (v \div 65536) % 256, v \div 16777216>>

UnpackH(b, at) == b[at + 1] + 256 * b[at + 2]

UnpackI(b, at) == b[at + 1] + 256 * b[at + 2] + 65536 * b[at + 3] + 16777216 * b[at + 4]

\* the concatenation of the sequences of ss, in order
RECURSIVE Concat(_)
Concat(ss) ==
  IF Len(ss) = 0 THEN <<>>
  ELSE IF Len(ss) = 1 THEN ss[1]
  ELSE Concat(SubSeq(ss, 1, Len(ss) \div 2)) \o Concat(SubSeq(ss, Len(ss) \div 2 + 1, Len(ss)))

\* struct.pack("<HHIIBB9H", mode, uid, size, time, gid, nlinks, *zones)
PackInode(mode, uid, size, time, gid, nlinks, zones) ==
  PackH(mode) \o PackH(uid) \o PackI(size) \o PackI(time) \o <<gid, nlinks>>
    \o Concat([i \in 1..9 |-> PackH(zones[i])])

\* s.ljust(width, '\0')
Ljust(s, width) == s \o [i \in 1..(width - Len(s)) |-> 0]

\* s.rstrip(b'\0'): s up to its last non-zero byte
Rstrip(s) ==
  LET used == {i \in 1..Len(s) : s[i] # 0}
  IN IF used = {} THEN <<>>
     ELSE SubSeq(s, 1, CHOOSE i \in used : \A j \in used : j <= i)

\* the field "{width}s" of struct.pack: the bytes are cut or zero-padded to width
PackS(s, width) == IF Len(s) >= width THEN SubSeq(s, 1, width) ELSE Ljust(s, width)

\* struct.pack(f"<H{width}s", inode_number, name)
PackEntry(inode_number, name, width) == PackH(inode_number) \o PackS(name, width)

(***************************************************************************)
(* str.encode() and bytes.decode(): UTF-8.  A str is the sequence of its   *)
(* code points, so an ASCII str and its encoding are the same sequence.    *)
(***************************************************************************)
EncodeChar(c) ==
  IF c < 128 THEN <<c>>
  ELSE IF c < 2048 THEN <<192 + (c \div 64), 128 + (c % 64)>>
  ELSE IF c < 65536
       THEN <<224 + (c \div 4096), 128 + ((c \div 64) % 64), 128 + (c % 64)>>
  ELSE <<240 + (c \div 262144), 128 + ((c \div 4096) % 64), 128 + ((c \div 64) % 64),
         128 + (c % 64)>>

\* s.encode()
encode(s) == Concat([k \in 1..Len(s) |-> EncodeChar(s[k])])

\* what b.decode() gives for bytes that are not UTF-8: it raises
UnicodeDecodeError == <<-1>>

\* the code points of b from byte i on, -1 where the bytes are not UTF-8
RECURSIVE Utf8Decode(_, _)
Utf8Decode(b, i) ==
  IF i > Len(b) THEN <<>>
  ELSE LET c == b[i]
           Cont(j) == j <= Len(b) /\ b[j] >= 128 /\ b[j] <= 191
       IN IF c < 128 THEN <<c>> \o Utf8Decode(b, i + 1)
          ELSE IF c >= 194 /\ c <= 223 /\ Cont(i + 1)
               THEN <<(c - 192) * 64 + (b[i + 1] - 128)>> \o Utf8Decode(b, i + 2)
          ELSE IF /\ c >= 224 /\ c <= 239 /\ Cont(i + 1) /\ Cont(i + 2)
                  /\ (c = 224 => b[i + 1] >= 160) /\ (c = 237 => b[i + 1] <= 159)
               THEN <<(c - 224) * 4096 + (b[i + 1] - 128) * 64 + (b[i + 2] - 128)>>
                      \o Utf8Decode(b, i + 3)
          ELSE IF /\ c >= 240 /\ c <= 244 /\ Cont(i + 1) /\ Cont(i + 2) /\ Cont(i + 3)
                  /\ (c = 240 => b[i + 1] >= 144) /\ (c = 244 => b[i + 1] <= 143)
               THEN <<(c - 240) * 262144 + (b[i + 1] - 128) * 4096
                        + (b[i + 2] - 128) * 64 + (b[i + 3] - 128)>>
                      \o Utf8Decode(b, i + 4)
          ELSE <<-1>>

\* b.decode()
decode(b) ==
  LET s == Utf8Decode(b, 1)
  IN IF \E k \in 1..Len(s) : s[k] = -1 THEN UnicodeDecodeError ELSE s

\* struct.unpack(f"<H{width}s", entry_data)
UnpackEntry(entry_data, width) ==
  [inode_number |-> UnpackH(entry_data, 0), name |-> SubSeq(entry_data, 3, 2 + width)]

\* struct.calcsize(f"<H{width}s")
EntrySize(width) == 2 + width

(***************************************************************************)
(* The image file: file.seek(off); file.read(n) and file.seek(off);        *)
(* file.write(bytes).  im[z + 1] holds the bytes of block z up to its last *)
(* non-zero byte; the bytes of the block after them are 0.                 *)
(***************************************************************************)
ByteAt(im, p) ==
  LET block == im[p \div BLOCK_SIZE + 1]
  IN IF p % BLOCK_SIZE < Len(block) THEN block[(p % BLOCK_SIZE) + 1] ELSE 0

\* file.seek(off); file.read(n): the n bytes from off on, as a sequence
ReadAt(im, off, n) == [i \in 1..n |-> ByteAt(im, off + i - 1)] \o <<>>

WriteAt(im, off, bytes) ==
  LET end == off + Len(bytes)
      Written(z) ==
        LET first == z * BLOCK_SIZE
            len == IF end - first > Len(im[z + 1]) THEN Min(end - first, BLOCK_SIZE)
                   ELSE Len(im[z + 1])
        IN Rstrip([i \in 1..len |->
                      IF first + i - 1 >= off /\ first + i - 1 < end
                      THEN bytes[first + i - off] ELSE ByteAt(im, first + i - 1)])
  IN [k \in 1..Len(im) |->
        IF (k - 1) * BLOCK_SIZE < end /\ off < k * BLOCK_SIZE /\ Len(bytes) > 0
        THEN Written(k - 1) ELSE im[k]]

\* the bytes of block z
BlockOf(im, z) == ReadAt(im, z * BLOCK_SIZE, BLOCK_SIZE)

\* block_data == bytes([EMPTY] * BLOCK_SIZE)
BlockIsZero(im, z) == im[z + 1] = <<>>

(***************************************************************************)
(* parse_superblock: the fields of block 1, in their fixed order.          *)
(***************************************************************************)
parse_superblock(sb_data) ==
  [num_inodes      |-> UnpackH(sb_data, 0),
   num_zones       |-> UnpackH(sb_data, 2),
   imap_blocks     |-> UnpackH(sb_data, 4),
   zmap_blocks     |-> UnpackH(sb_data, 6),
   first_data_zone |-> UnpackH(sb_data, 8),
   log_zone_size   |-> UnpackH(sb_data, 10),
   max_file_size   |-> UnpackI(sb_data, 12),
   magic           |-> UnpackH(sb_data, 16),
   state           |-> UnpackH(sb_data, 18)]

\* __main__: file.seek(BLOCK_SIZE, 0); sb_data = file.read(BLOCK_SIZE)
SbOf(im) == parse_superblock(ReadAt(im, BLOCK_SIZE, 20))

\* __main__: MAX_FILENAME_LONG if sb_dict["magic"] == 0x138F else MAX_FILENAME_SHORT
max_filename_length(sb_dict) ==
  IF sb_dict.magic = MAGIC_LONG THEN MAX_FILENAME_LONG ELSE MAX_FILENAME_SHORT

(***************************************************************************)
(* parse_inode: the 32-byte record of inode_number.                        *)
(***************************************************************************)
InodeOffset(sb_dict, inode_number) ==
  (BOOT_BLOCK + SUPER_BLOCK + sb_dict.imap_blocks + sb_dict.zmap_blocks) * BLOCK_SIZE
    + (inode_number - 1) * INODE_SIZE

UnpackInode(inode_data) ==
  [i_mode   |-> UnpackH(inode_data, 0),
   i_uid    |-> UnpackH(inode_data, 2),
   i_size   |-> UnpackI(inode_data, 4),
   i_time   |-> UnpackI(inode_data, 8),
   i_gid    |-> inode_data[13],
   i_nlinks |-> inode_data[14],
   i_zone   |-> [i \in 1..9 |-> UnpackH(inode_data, 14 + 2 * (i - 1))]]

parse_inode(im, sb_dict, inode_number) ==
  UnpackInode(ReadAt(im, InodeOffset(sb_dict, inode_number), INODE_SIZE))

(***************************************************************************)
(* Directory blocks.  Every loop over a directory in the program is        *)
(*   for zone in inode["i_zone"]: if zone != EMPTY:                        *)
(*     for offset in range(0, BLOCK_SIZE, entry_size): unpack the entry    *)
(***************************************************************************)
\* the entries of the block of one zone, in the order of
\* range(0, BLOCK_SIZE, entry_size): file.seek(zone * BLOCK_SIZE);
\* block_data = file.read(BLOCK_SIZE); block_data[offset:offset + entry_size]
BlockEntries(im, zone, width) ==
  LET block_data == BlockOf(im, zone)
  IN [k \in 1..((BLOCK_SIZE + EntrySize(width) - 1) \div EntrySize(width)) |->
        [inode_number |-> UnpackH(block_data, (k - 1) * EntrySize(width)),
         name |-> SubSeq(block_data, (k - 1) * EntrySize(width) + 3, k * EntrySize(width))]]

\* BlockNames without the test inode_number != 0
BlockNames_AllSlots(im, zone, width) ==
  LET used == BlockEntries(im, zone, width)
  IN [k \in 1..Len(used) |-> Rstrip(used[k].name)]

\* the names appended for one block: if inode_number != 0: filename.rstrip(b'\0')
BlockNames(im, zone, width) ==
  LET used == SelectSeq(BlockEntries(im, zone, width), LAMBDA e : e.inode_number # 0)
  IN [k \in 1..Len(used) |-> Rstrip(used[k].name)]

RECURSIVE RootNamesFrom(_, _, _, _)
RootNamesFrom(im, zones, i, width) ==
  IF i > Len(zones) THEN <<>>
  ELSE (IF zones[i] # EMPTY THEN BlockNames(im, zones[i], width) ELSE <<>>)
         \o RootNamesFrom(im, zones, i + 1, width)

read_root_directory_entries(im, sb_dict, width) ==
  RootNamesFrom(im, parse_inode(im, sb_dict, 1).i_zone, 1, width)

\* the index k of the first entry from k on with
\* entry_name.rstrip(b'\0').decode() == filename, 0 when there is none; raised
\* when the decode of an entry met on the way raises
RECURSIVE MatchInBlock(_, _, _)
MatchInBlock(entries, k, filename) ==
  IF k > Len(entries) THEN [k |-> 0, raised |-> FALSE]
  ELSE LET entry_name == decode(Rstrip(entries[k].name))
       IN IF entry_name = UnicodeDecodeError THEN [k |-> 0, raised |-> TRUE]
          ELSE IF entry_name = filename THEN [k |-> k, raised |-> FALSE]
          ELSE MatchInBlock(entries, k + 1, filename)

\* the first matching entry over the zone slots from i on: None when the loops
\* end without a match
RECURSIVE MatchEntry(_, _, _, _, _)
MatchEntry(im, zones, i, filename, width) ==
  IF i > Len(zones)
  THEN [found |-> FALSE, raised |-> FALSE, inode_number |-> None, zone |-> 0, index |-> 0]
  ELSE LET entries == BlockEntries(im, zones[i], width)
           m == MatchInBlock(entries, 1, filename)
       IN IF zones[i] # EMPTY /\ m.raised
          THEN [found |-> FALSE, raised |-> TRUE, inode_number |-> None,
                zone |-> zones[i], index |-> 0]
          ELSE IF zones[i] # EMPTY /\ m.k # 0
          THEN [found |-> TRUE, raised |-> FALSE, inode_number |-> entries[m.k].inode_number,
                zone |-> zones[i], index |-> m.k]
          ELSE MatchEntry(im, zones, i + 1, filename, width)

\* the inode number returned (None when the loops end), or raised
find_inode_of_directory(im, sb_dict, dir_name, width) ==
  MatchEntry(im, parse_inode(im, sb_dict, 1).i_zone, 1, dir_name, width)

(***************************************************************************)
(* Reading a file.  read_file_data is modelled by the reads it makes: the  *)
(* sequence of <<zone, bytes_to_read>> of its file.seek(zone * BLOCK_SIZE);*)
(* file.read(bytes_to_read); the bytearray it returns is FileBytes of it.  *)
(***************************************************************************)
fetch_indirect_block_addresses(im, block_num) ==
  LET block_data == BlockOf(im, block_num)
      addresses == [k \in 1..(BLOCK_SIZE \div 2) |-> UnpackH(block_data, 2 * (k - 1))]
  IN SelectSeq(addresses, LAMBDA a : a # EMPTY)

fetch_double_indirect_block_addresses(im, block_num) ==
  LET indirect_addresses == fetch_indirect_block_addresses(im, block_num)
  IN Concat([k \in 1..Len(indirect_addresses) |->
               fetch_indirect_block_addresses(im, indirect_addresses[k])])

\* ReadDirect without the test zone != EMPTY
RECURSIVE ReadDirect_NoEmptyTest(_, _, _)
ReadDirect_NoEmptyTest(zones, i, remaining_size) ==
  IF i > NUM_DIRECT_ZONES THEN [reads |-> <<>>, remaining_size |-> remaining_size]
  ELSE IF remaining_size > 0
       THEN LET bytes_to_read == Min(BLOCK_SIZE, remaining_size)
                rest == ReadDirect_NoEmptyTest(zones, i + 1, remaining_size - bytes_to_read)
            IN [reads |-> <<<<zones[i], bytes_to_read>>>> \o rest.reads,
                remaining_size |-> rest.remaining_size]
       ELSE ReadDirect_NoEmptyTest(zones, i + 1, remaining_size)

\* ReadDirect reading a whole block whatever remains
RECURSIVE ReadDirect_WholeBlock(_, _, _)
ReadDirect_WholeBlock(zones, i, remaining_size) ==
  IF i > NUM_DIRECT_ZONES THEN [reads |-> <<>>, remaining_size |-> remaining_size]
  ELSE IF zones[i] # EMPTY /\ remaining_size > 0
       THEN LET rest == ReadDirect_WholeBlock(zones, i + 1, remaining_size - BLOCK_SIZE)
            IN [reads |-> <<<<zones[i], BLOCK_SIZE>>>> \o rest.reads,
                remaining_size |-> rest.remaining_size]
       ELSE ReadDirect_WholeBlock(zones, i + 1, remaining_size)

\* lines 156-161: the loop over the direct zones
RECURSIVE ReadDirect(_, _, _)
ReadDirect(zones, i, remaining_size) ==
  IF i > NUM_DIRECT_ZONES THEN [reads |-> <<>>, remaining_size |-> remaining_size]
  ELSE IF zones[i] # EMPTY /\ remaining_size > 0
       THEN LET bytes_to_read == Min(BLOCK_SIZE, remaining_size)
                rest == ReadDirect(zones, i + 1, remaining_size - bytes_to_read)
            IN [reads |-> <<<<zones[i], bytes_to_read>>>> \o rest.reads,
                remaining_size |-> rest.remaining_size]
       ELSE ReadDirect(zones, i + 1, remaining_size)

\* lines 166-172 and 177-183: the loop over the blocks of an indirect chain.
\* Every pass but the last reads BLOCK_SIZE bytes, so the loop makes
\* min(len(blocks), ceil(remaining_size / BLOCK_SIZE)) passes before it ends or
\* breaks on remaining_size <= 0, and pass k starts with
\* remaining_size - (k - 1) * BLOCK_SIZE bytes to read.
ReadBlocks(blocks, remaining_size) ==
  LET passes == IF remaining_size <= 0 THEN 0
                ELSE Min(Len(blocks), (remaining_size + BLOCK_SIZE - 1) \div BLOCK_SIZE)
      reads == [k \in 1..passes |->
                  <<blocks[k], Min(BLOCK_SIZE, remaining_size - (k - 1) * BLOCK_SIZE)>>]
  IN [reads |-> reads,
      remaining_size |-> IF passes = 0 THEN remaining_size
                         ELSE remaining_size - (passes - 1) * BLOCK_SIZE - reads[passes][2]]

\* lines 163-172
ReadIndirect(im, zones, remaining_size) ==
  LET indirect_blocks == fetch_indirect_block_addresses(im, zones[INDIRECT_ZONE_INDEX + 1])
  IN IF remaining_size > 0 /\ zones[INDIRECT_ZONE_INDEX + 1] # EMPTY
     THEN ReadBlocks(indirect_blocks, remaining_size)
     ELSE [reads |-> <<>>, remaining_size |-> remaining_size]

\* lines 174-183
ReadDoubleIndirect(im, zones, remaining_size) ==
  LET double_indirect_blocks ==
        fetch_double_indirect_block_addresses(im, zones[DOUBLE_INDIRECT_ZONE_INDEX + 1])
  IN IF remaining_size > 0 /\ zones[DOUBLE_INDIRECT_ZONE_INDEX + 1] # EMPTY
     THEN ReadBlocks(double_indirect_blocks, remaining_size)
     ELSE [reads |-> <<>>, remaining_size |-> remaining_size]

read_file_data(im, inode) ==
  LET direct == ReadDirect(inode.i_zone, 1, inode.i_size)
      indirect == ReadIndirect(im, inode.i_zone, direct.remaining_size)
      double == ReadDoubleIndirect(im, inode.i_zone, indirect.remaining_size)
  IN direct.reads \o indirect.reads \o double.reads

\* the bytes of the reads, in order: the file_content of read_file_data
FileBytes(im, reads) ==
  Concat([k \in 1..Len(reads) |-> ReadAt(im, reads[k][1] * BLOCK_SIZE, reads[k][2])])

(***************************************************************************)
(* touch and mkdir.  An operation returns the image it leaves and what it  *)
(* reported; the inode record is written before the root directory is      *)
(* looked at.                                                              *)
(***************************************************************************)
\* FirstFreeInode without the else branch of the loop: when no inode is free the
\* loop variable is left at num_inodes and the operation goes on with it
RECURSIVE FirstFreeInode_NoElse(_, _, _)
FirstFreeInode_NoElse(im, sb_dict, n) ==
  IF n > sb_dict.num_inodes THEN sb_dict.num_inodes
  ELSE IF parse_inode(im, sb_dict, n).i_nlinks = 0 THEN n
  ELSE FirstFreeInode_NoElse(im, sb_dict, n + 1)

\* FirstFreeInode scanning downwards: the last inode from n on with i_nlinks == 0
RECURSIVE FirstFreeInode_Highest(_, _, _)
FirstFreeInode_Highest(im, sb_dict, n) ==
  IF n > sb_dict.num_inodes THEN None
  ELSE LET above == FirstFreeInode_Highest(im, sb_dict, n + 1)
       IN IF above # None THEN above
          ELSE IF parse_inode(im, sb_dict, n).i_nlinks = 0 THEN n
          ELSE None

\* lines 236-242 and 289-297: the first inode from n on with i_nlinks == 0,
\* None when the loop ends without one
RECURSIVE FirstFreeInode(_, _, _)
FirstFreeInode(im, sb_dict, n) ==
  IF n > sb_dict.num_inodes THEN None
  ELSE IF parse_inode(im, sb_dict, n).i_nlinks = 0 THEN n
  ELSE FirstFreeInode(im, sb_dict, n + 1)

\* lines 268-275 and 323-330: the offset of the first entry from k on with
\* inode_num == 0, None when the loop ends without one
RECURSIVE FreeSlot(_, _, _)
FreeSlot(entries, k, width) ==
  IF k > Len(entries) THEN None
  ELSE IF entries[k].inode_number = 0 THEN (k - 1) * EntrySize(width)
  ELSE FreeSlot(entries, k + 1, width)

\* NewFileInode with i_nlinks left 0
NewFileInode_NoLink(now) ==
  PackInode(S_IFREG + S_IRUSR + S_IWUSR + S_IXUSR, 0, 0, now, 0, 0, [i \in 1..9 |-> EMPTY])

\* lines 249-256
NewFileInode(now) ==
  PackInode(S_IFREG + S_IRUSR + S_IWUSR + S_IXUSR, 0, 0, now, 0, 1, [i \in 1..9 |-> EMPTY])

\* lines 304-311
NewDirInode(now) ==
  PackInode(S_IFDIR + S_IRUSR + S_IWUSR + S_IXUSR, 0, BLOCK_SIZE, now, 0, 2,
            [i \in 1..9 |-> EMPTY])

Created(im, outcome, inode_number, entry_at) ==
  [img |-> im, outcome |-> outcome, inode_number |-> inode_number, entry_at |-> entry_at]

create_new_file(im, sb_dict, filename, width, now) ==
  LET root_inode == parse_inode(im, sb_dict, 1)
      inode_number == FirstFreeInode(im, sb_dict, 1)
      root_dir_block == root_inode.i_zone[1]
      \* lines 261-280, on the image im1 that holds the new inode
      AddEntry(im1) ==
        LET offset == FreeSlot(BlockEntries(im1, root_dir_block, width), 1, width)
            entry_at == root_dir_block * BLOCK_SIZE + offset
        IN IF offset = None THEN Created(im1, "DirectoryFull", inode_number, None)
           ELSE Created(WriteAt(im1, entry_at,
                                PackEntry(inode_number, encode(Ljust(filename, width)), width)),
                        "ok", inode_number, entry_at)
  IN IF inode_number = None THEN Created(im, "NoFreeInodes", None, None)
     ELSE Once(WriteAt(im, InodeOffset(sb_dict, inode_number), NewFileInode(now)), AddEntry)

\* lines 336-342: the first zone from z on, below nzones, whose block is zero
RECURSIVE FirstZeroBlock(_, _, _)
FirstZeroBlock(im, z, nzones) ==
  IF z >= nzones THEN None
  ELSE IF BlockIsZero(im, z) THEN z
  ELSE FirstZeroBlock(im, z + 1, nzones)

\* the superblock dictionary has no key "nzones" (parse_superblock names the field
\* num_zones): sb_dict["nzones"] of line 337 raises KeyError, after the inode and
\* the root entry were written; lines 338-354 follow for a dictionary that has it
create_new_directory(im, sb_dict, dirname, width, now) ==
  LET root_inode == parse_inode(im, sb_dict, 1)
      free_inode_number == FirstFreeInode(im, sb_dict, 1)
      inode_offset == InodeOffset(sb_dict, free_inode_number)
      root_dir_block == root_inode.i_zone[1]
      new_dir_data == PackEntry(free_inode_number, Ljust(<<46>>, width), width)
                        \o PackEntry(1, Ljust(<<46, 46>>, width), width)
      \* lines 336-354, on the image im2 that holds the new inode and its entry
      AddBlock(im2, entry_at) ==
        LET new_dir_block == FirstZeroBlock(im2, sb_dict.first_data_zone, sb_dict.nzones)
            im3 == WriteAt(im2, inode_offset + 16, PackH(new_dir_block))
        IN IF "nzones" \notin DOMAIN sb_dict
           THEN Created(im2, "KeyError", free_inode_number, entry_at)
           ELSE IF new_dir_block = None
                THEN Created(im2, "NoFreeDataBlocks", free_inode_number, entry_at)
           ELSE Created(WriteAt(im3, new_dir_block * BLOCK_SIZE, new_dir_data),
                        "ok", free_inode_number, entry_at)
      \* lines 316-334, on the image im1 that holds the new inode
      AddEntry(im1) ==
        LET offset == FreeSlot(BlockEntries(im1, root_dir_block, width), 1, width)
            entry_at == root_dir_block * BLOCK_SIZE + offset
            WithEntry(im2) == AddBlock(im2, entry_at)
        IN IF offset = None THEN Created(im1, "DirectoryFull", free_inode_number, None)
           ELSE Once(WriteAt(im1, entry_at,
                             PackEntry(free_inode_number, encode(Ljust(dirname, width)), width)),
                     WithEntry)
  IN IF free_inode_number = None THEN Created(im, "NoFreeInodes", None, None)
     ELSE Once(WriteAt(im, inode_offset, NewDirInode(now)), AddEntry)

(***************************************************************************)
(* cat and append.                                                         *)
(***************************************************************************)
Looked(im, outcome, inode_number, file_inode, reads) ==
  [img |-> im, outcome |-> outcome, inode_number |-> inode_number,
   file_inode |-> file_inode, reads |-> reads]

ZeroInode == UnpackInode([i \in 1..INODE_SIZE |-> 0])

cat_file(im, sb_dict, dir_inode_number, filename, width) ==
  LET dir_inode == parse_inode(im, sb_dict, dir_inode_number)
      m == MatchEntry(im, dir_inode.i_zone, 1, filename, width)
      file_inode == parse_inode(im, sb_dict, m.inode_number)
  IN IF m.raised THEN Looked(im, "UnicodeDecodeError", None, ZeroInode, <<>>)
     ELSE IF m.found
     THEN Looked(im, "ok", m.inode_number, file_inode, read_file_data(im, file_inode))
     ELSE Looked(im, "NameNotFound", None, ZeroInode, <<>>)

\* def read_file_data(file, inode): two parameters (line 152)
read_file_data_parameters == 2
\* read_file_data(file, sb_dict, file_inode): three arguments (line 376)
append_read_file_data_arguments == 3

\* file_content[:BLOCK_SIZE] and file_content[BLOCK_SIZE:]
Take(s, n) == SubSeq(s, 1, Min(n, Len(s)))
Drop(s, n) == SubSeq(s, n + 1, Len(s))

\* lines 379-383: every direct zone that is not EMPTY is written
RECURSIVE WriteDirect(_, _, _, _)
WriteDirect(im, zones, i, file_content) ==
  IF i > NUM_DIRECT_ZONES THEN [img |-> im, file_content |-> file_content]
  ELSE IF zones[i] # EMPTY
       THEN WriteDirect(WriteAt(im, zones[i] * BLOCK_SIZE, Take(file_content, BLOCK_SIZE)),
                        zones, i + 1, Drop(file_content, BLOCK_SIZE))
       ELSE WriteDirect(im, zones, i + 1, file_content)

\* lines 388-393 and 399-404
RECURSIVE WriteBlocks(_, _, _, _)
WriteBlocks(im, blocks, k, file_content) ==
  IF k > Len(blocks) \/ Len(file_content) <= 0
  THEN [img |-> im, file_content |-> file_content]
  ELSE WriteBlocks(WriteAt(im, blocks[k] * BLOCK_SIZE, Take(file_content, BLOCK_SIZE)),
                   blocks, k + 1, Drop(file_content, BLOCK_SIZE))

\* the call of line 376 passes three arguments to the two parameters of
\* read_file_data and raises TypeError before any byte is written; lines 377-422
\* follow for a call that binds
append_to_file(im, sb_dict, dir_inode_number, filename, data, width, now) ==
  LET dir_inode == parse_inode(im, sb_dict, dir_inode_number)
      m == MatchEntry(im, dir_inode.i_zone, 1, filename, width)
      file_inode == parse_inode(im, sb_dict, m.inode_number)
      new_size == file_inode.i_size + Len(data)
      reads == read_file_data(im, file_inode)
      direct == WriteDirect(im, file_inode.i_zone, 1, FileBytes(im, reads) \o encode(data))
      indirect ==
        IF Len(direct.file_content) > 0 /\ file_inode.i_zone[INDIRECT_ZONE_INDEX + 1] # EMPTY
        THEN WriteBlocks(direct.img,
                         fetch_indirect_block_addresses(
                           direct.img, file_inode.i_zone[INDIRECT_ZONE_INDEX + 1]),
                         1, direct.file_content)
        ELSE direct
      double ==
        IF Len(indirect.file_content) > 0
             /\ file_inode.i_zone[DOUBLE_INDIRECT_ZONE_INDEX + 1] # EMPTY
        THEN WriteBlocks(indirect.img,
                         fetch_double_indirect_block_addresses(
                           indirect.img, file_inode.i_zone[DOUBLE_INDIRECT_ZONE_INDEX + 1]),
                         1, indirect.file_content)
        ELSE indirect
      new_inode == PackInode(file_inode.i_mode, file_inode.i_uid, new_size, now,
                             file_inode.i_gid, file_inode.i_nlinks, file_inode.i_zone)
  IN IF m.raised THEN Looked(im, "UnicodeDecodeError", None, ZeroInode, <<>>)
     ELSE IF ~m.found THEN Looked(im, "NameNotFound", None, ZeroInode, <<>>)
     ELSE IF append_read_file_data_arguments # read_file_data_parameters
          THEN Looked(im, "TypeError", m.inode_number, file_inode, <<>>)
     ELSE Looked(WriteAt(double.img, InodeOffset(sb_dict, m.inode_number), new_inode),
                 "ok", m.inode_number, file_inode, reads)

(***************************************************************************)
(* The images the commands start from.  Block 0 is the boot block, block 1 *)
(* the superblock, blocks 2 and 3 the inode and zone bitmaps, block 4 the  *)
(* inode table and blocks 5..21 the data zones.  Every zone number of an   *)
(* image lies inside the image, every inode number of a directory entry in *)
(* 0..num_inodes, and every name is ASCII.                                 *)
(***************************************************************************)
Dot == <<46>>
DotDot == <<46, 46>>
Foo == <<102, 111, 111>>
Old == <<111, 108, 100>>
Dee == <<100>>
Bar == <<98, 97, 114>>
Sub == <<115, 117, 98>>
New == <<110, 101, 119>>
\* a name of 15 characters: longer than the short name field, shorter than the
\* long one
Name15 == [i \in 1..15 |-> 96 + i]
\* a name of 14 characters and 15 bytes: 13 letters and U+00E9
NameWide == [i \in 1..14 |-> IF i = 14 THEN 233 ELSE 96 + i]

Magics == {4991, MAGIC_LONG}

RECURSIVE WriteAll(_, _)
WriteAll(im, writes) ==
  IF writes = <<>> THEN im
  ELSE WriteAll(WriteAt(im, Head(writes)[1], Head(writes)[2]), Tail(writes))

WidthOf(magic) == IF magic = MAGIC_LONG THEN MAX_FILENAME_LONG ELSE MAX_FILENAME_SHORT

\* a directory block holding the entries es, in order, from its first byte
DirBlock(z, es, width) ==
  <<z * BLOCK_SIZE, Concat([k \in 1..Len(es) |-> PackEntry(es[k][1], es[k][2], width)])>>

SlotsPerBlock(width) == BLOCK_SIZE \div EntrySize(width)

\* the entries of a root block without a free slot
FullEntries(width) ==
  [k \in 1..SlotsPerBlock(width) |->
     IF k = 1 THEN <<1, Dot>>
     ELSE IF k = 2 THEN <<1, DotDot>>
     ELSE IF k = 3 THEN <<2, Foo>>
     ELSE IF k = 4 THEN <<3, Dee>>
     ELSE <<4, <<120, 32 + k>>>>]

DataZones == <<10, 11, 12, 13, 17, 18, 19>>

\* the data of the file foo: every data block starts with its own number and
\* has a byte at offsets 451 and 1023
DataWrites ==
  Concat([k \in 1..Len(DataZones) |->
            << <<DataZones[k] * BLOCK_SIZE, <<DataZones[k], 1, 2>>>>,
               <<DataZones[k] * BLOCK_SIZE + 451, <<7>>>>,
               <<DataZones[k] * BLOCK_SIZE + 1023, <<9>>>> >>])

\* the indirect block 14 (every entry in use), the double indirect block 15 and
\* its indirect blocks 16 and 20
IndirectWrites ==
  << <<14 * BLOCK_SIZE, [i \in 1..BLOCK_SIZE |-> IF i % 2 = 1 THEN DataZones[((i \div 2) % 7) + 1] ELSE 0]>>,
     <<15 * BLOCK_SIZE, PackH(16) \o PackH(0) \o PackH(20)>>,
     <<16 * BLOCK_SIZE, PackH(10) \o PackH(11)>>,
     <<20 * BLOCK_SIZE + 4, PackH(12)>> >>

FileKinds == {"empty", "s2500", "full3", "short", "gap", "ind", "dbl", "dblgap"}

\* the size and the zones of the file foo
FooSize(kind) ==
  CASE kind = "empty" -> 0
    [] kind = "s2500" -> 2500
    [] kind = "full3" -> 3 * BLOCK_SIZE
    [] kind = "short" -> 5000
    [] kind = "gap"   -> 2500
    [] kind = "ind"   -> 9 * BLOCK_SIZE + 300
    [] kind = "dbl"   -> (NUM_DIRECT_ZONES + BLOCK_SIZE \div 2 + 1) * BLOCK_SIZE + 500
    [] kind = "dblgap" -> (NUM_DIRECT_ZONES + BLOCK_SIZE \div 2 + 2) * BLOCK_SIZE + 500

FooZones(kind) ==
  CASE kind = "empty" -> <<0, 0, 0, 0, 0, 0, 0, 0, 0>>
    [] kind \in {"s2500", "full3", "short"} -> <<10, 11, 12, 0, 0, 0, 0, 0, 0>>
    [] kind = "gap"   -> <<10, 0, 12, 0, 0, 0, 0, 0, 0>>
    [] kind = "ind"   -> DataZones \o <<14, 0>>
    [] kind \in {"dbl", "dblgap"} -> DataZones \o <<14, 15>>

DirMode == S_IFDIR + S_IRUSR + S_IWUSR + S_IXUSR
FileMode == S_IFREG + S_IRUSR + S_IWUSR

InodeWrite(n, bytes) == <<4 * BLOCK_SIZE + (n - 1) * INODE_SIZE, bytes>>

FileInode(size, zones) == PackInode(FileMode, 0, size, 0, 0, 1, zones)

NoZones == [i \in 1..9 |-> 0]

\* the inodes n..NumInodes: free (i_nlinks = 0), or empty files when all_used
RECURSIVE SpareInodes(_, _)
SpareInodes(n, all_used) ==
  IF n > NumInodes THEN <<>>
  ELSE <<InodeWrite(n, IF all_used THEN FileInode(0, NoZones)
                       ELSE PackInode(FileMode, 0, 0, 0, 0, 0, NoZones))>>
         \o SpareInodes(n + 1, all_used)

Superblock(magic) ==
  <<BLOCK_SIZE, PackH(NumInodes) \o PackH(22) \o PackH(1) \o PackH(1) \o PackH(5)
                  \o PackH(0) \o PackI(268966912) \o PackH(magic) \o PackH(1)>>

\* root "std": one block with ., .., foo, a free slot that keeps the name old,
\* and the directory d; d holds the file bar
\* root "full": one block without a free slot;  root "two": that block and a
\* second one whose first slot is free
\* root "zone0empty": the block of "std" in the second zone slot of the root
\* inode, whose first zone slot is 0
StdInodes(kind, root_zones) ==
  << InodeWrite(1, PackInode(DirMode, 0, BLOCK_SIZE, 0, 0, 3, root_zones)),
     InodeWrite(2, FileInode(FooSize(kind), FooZones(kind))),
     InodeWrite(3, PackInode(DirMode, 0, BLOCK_SIZE, 0, 0, 2, <<7, 0, 0, 0, 0, 0, 0, 0, 0>>)),
     InodeWrite(4, FileInode(5, <<8, 0, 0, 0, 0, 0, 0, 0, 0>>)),
     <<8 * BLOCK_SIZE, <<104, 101, 108, 108, 111>>>> >>

BuildImage(cfg) ==
  LET width == WidthOf(cfg.magic)
      dir_d == DirBlock(7, << <<3, Dot>>, <<1, DotDot>>, <<4, Bar>> >>, width)
      common == <<Superblock(cfg.magic), <<2 * BLOCK_SIZE, <<127>>>>,
                  <<3 * BLOCK_SIZE, <<255, 255, 63>>>> >> \o DataWrites \o IndirectWrites
      root ==
        CASE cfg.root = "std" ->
               StdInodes(cfg.file, <<5, 0, 0, 0, 0, 0, 0, 0, 0>>) \o
               << dir_d,
                  DirBlock(5, << <<1, Dot>>, <<1, DotDot>>, <<2, Foo>>, <<0, Old>>,
                                 <<3, Dee>> >>, width) >> \o
               SpareInodes(5, cfg.all_used)
          [] cfg.root = "only" ->
               << InodeWrite(1, PackInode(DirMode, 0, BLOCK_SIZE, 0, 0, 2,
                                          <<5, 0, 0, 0, 0, 0, 0, 0, 0>>)),
                  InodeWrite(5, FileInode(FooSize(cfg.file), FooZones(cfg.file))),
                  DirBlock(5, << <<5, Foo>> >>, width) >> \o
               SpareInodes(6, cfg.all_used) \o
               (IF cfg.all_used
                THEN <<InodeWrite(2, FileInode(0, NoZones)), InodeWrite(3, FileInode(0, NoZones)),
                       InodeWrite(4, FileInode(0, NoZones))>>
                ELSE <<>>)
          [] cfg.root = "full" ->
               StdInodes(cfg.file, <<5, 0, 0, 0, 0, 0, 0, 0, 0>>) \o
               << dir_d, DirBlock(5, FullEntries(width), width) >> \o
               SpareInodes(5, cfg.all_used)
          [] cfg.root = "two" ->
               StdInodes(cfg.file, <<5, 6, 0, 0, 0, 0, 0, 0, 0>>) \o
               << dir_d, DirBlock(5, FullEntries(width), width),
                  DirBlock(6, << <<0, <<>>>>, <<4, Bar>> >>, width) >> \o
               SpareInodes(5, cfg.all_used)
          [] cfg.root = "zone0empty" ->
               StdInodes(cfg.file, <<0, 5, 0, 0, 0, 0, 0, 0, 0>>) \o
               << dir_d,
                  DirBlock(5, << <<1, Dot>>, <<1, DotDot>>, <<2, Foo>>, <<0, Old>>,
                                 <<3, Dee>> >>, width) >> \o
               SpareInodes(5, cfg.all_used)
  IN WriteAll([z \in 1..22 |-> <<>>], common \o root)

Configs ==
  [magic : {4991}, root : {"std"}, file : FileKinds, all_used : {FALSE}]
    \cup [magic : Magics, root : {"std", "only"}, file : {"s2500"}, all_used : BOOLEAN]
    \cup [magic : Magics, root : {"full", "two"}, file : {"s2500"}, all_used : {FALSE}]

(***************************************************************************)
(* The commands of __main__.  result is what the last command reported,    *)
(* pre the image it started from, allocated the inode numbers that touch   *)
(* and mkdir have chosen so far (each with what the command reported),     *)
(* clock the number of commands run.                                       *)
(***************************************************************************)
NoResult ==
  [op |-> "none", dir_name |-> <<>>, name |-> <<>>, data |-> <<>>, outcome |-> "none",
   dir_inode_number |-> None, inode_number |-> None, entry_at |-> None,
   file_inode |-> ZeroInode, reads |-> <<>>, names |-> <<>>]

\* int(time.time())
Time == clock + 1

TouchNames == {New, Foo, <<>>, Name15, NameWide}
MkdirNames == {Sub, Foo}
CatPaths ==
  {<<Dot, Foo>>, <<Dee, Bar>>, <<Dot, New>>, <<Dee, Foo>>, <<<<>>, Foo>>, <<Old, Foo>>,
   <<Dot, <<>>>>, <<New, Foo>>, <<Sub, Dot>>}
\* the path and the data of an append
Appends ==
  {<<Dot, Foo, <<104, 105>>>>, <<Dot, Foo, <<>>>>, <<Dee, Bar, <<104, 105>>>>,
   <<Dot, New, <<104, 105>>>>, <<Old, Foo, <<104, 105>>>>}

Init ==
  /\ \E cfg \in Configs : img = BuildImage(cfg)
  /\ pre = img
  /\ result = NoResult
  /\ allocated = <<>>
  /\ clock = 0

Ran(im, res) ==
  /\ img' = im
  /\ pre' = img
  /\ result' = res
  /\ clock' = clock + 1

\* case "ls"
Ls ==
  /\ clock < MaxOps
  /\ \E sb_dict \in {SbOf(img)} :
       \E names \in {read_root_directory_entries(img, sb_dict, max_filename_length(sb_dict))} :
         Ran(img, [NoResult EXCEPT !.op = "ls", !.outcome = "ok", !.names = names])
  /\ UNCHANGED allocated

\* case "cat"
Cat ==
  /\ clock < MaxOps
  /\ \E path \in CatPaths, sb_dict \in {SbOf(img)} :
       LET width == max_filename_length(sb_dict)
           base == [NoResult EXCEPT !.op = "cat", !.dir_name = path[1], !.name = path[2]]
       IN \E d \in {find_inode_of_directory(img, sb_dict, path[1], width)} :
            LET dir_inode_number == d.inode_number
            IN IF d.raised
            THEN Ran(img, [base EXCEPT !.outcome = "UnicodeDecodeError"])
            ELSE IF dir_inode_number = None
            THEN Ran(img, [base EXCEPT !.outcome = "NameNotFound"])
            ELSE \E r \in {cat_file(img, sb_dict, dir_inode_number, path[2], width)} :
                   Ran(r.img, [base EXCEPT !.outcome = r.outcome,
                                 !.dir_inode_number = dir_inode_number,
                                 !.inode_number = r.inode_number,
                                 !.file_inode = r.file_inode, !.reads = r.reads])
  /\ UNCHANGED allocated

\* case "touch"
Touch ==
  /\ clock < MaxOps
  /\ \E filename \in TouchNames, sb_dict \in {SbOf(img)} :
       LET width == max_filename_length(sb_dict)
           base == [NoResult EXCEPT !.op = "touch", !.name = filename]
       IN IF Len(filename) > width
          THEN Ran(img, [base EXCEPT !.outcome = "NameTooLong"]) /\ UNCHANGED allocated
          ELSE \E r \in {create_new_file(img, sb_dict, filename, width, Time)} :
                 /\ Ran(r.img, [base EXCEPT !.outcome = r.outcome,
                                  !.inode_number = r.inode_number, !.entry_at = r.entry_at])
                 /\ allocated' = IF r.inode_number = None THEN allocated
                                 ELSE Append(allocated, [inode_number |-> r.inode_number,
                                                         outcome |-> r.outcome])

\* case "mkdir"
Mkdir ==
  /\ clock < MaxOps
  /\ \E dirname \in MkdirNames, sb_dict \in {SbOf(img)} :
       LET width == max_filename_length(sb_dict)
           base == [NoResult EXCEPT !.op = "mkdir", !.name = dirname]
       IN IF Len(dirname) > width
          THEN Ran(img, [base EXCEPT !.outcome = "NameTooLong"]) /\ UNCHANGED allocated
          ELSE \E r \in {create_new_directory(img, sb_dict, dirname, width, Time)} :
                 /\ Ran(r.img, [base EXCEPT !.outcome = r.outcome,
                                  !.inode_number = r.inode_number, !.entry_at = r.entry_at])
                 /\ allocated' = IF r.inode_number = None THEN allocated
                                 ELSE Append(allocated, [inode_number |-> r.inode_number,
                                                         outcome |-> r.outcome])

\* case "append"
AppendCmd ==
  /\ clock < MaxOps
  /\ \E path \in Appends, sb_dict \in {SbOf(img)} :
       LET width == max_filename_length(sb_dict)
           data == path[3]
           base == [NoResult EXCEPT !.op = "append", !.dir_name = path[1], !.name = path[2],
                      !.data = data]
       IN \E d \in {find_inode_of_directory(img, sb_dict, path[1], width)} :
            LET dir_inode_number == d.inode_number
            IN IF d.raised
            THEN Ran(img, [base EXCEPT !.outcome = "UnicodeDecodeError"])
            ELSE IF dir_inode_number = None
            THEN Ran(img, [base EXCEPT !.outcome = "NameNotFound"])
            ELSE \E r \in {append_to_file(img, sb_dict, dir_inode_number, path[2], data,
                                          width, Time)} :
                   Ran(r.img, [base EXCEPT !.outcome = r.outcome,
                                 !.dir_inode_number = dir_inode_number,
                                 !.inode_number = r.inode_number,
                                 !.file_inode = r.file_inode, !.reads = r.reads])
  /\ UNCHANGED allocated

Next == Ls \/ Cat \/ Touch \/ Mkdir \/ AppendCmd

Spec == Init /\ [][Next]_vars

\* the commands on the images whose root inode has 0 in its first zone slot
ConfigsZone0 ==
  [magic : Magics, root : {"zone0empty"}, file : {"s2500"}, all_used : {FALSE}]

InitZone0 ==
  /\ \E cfg \in ConfigsZone0 : img = BuildImage(cfg)
  /\ pre = img
  /\ result = NoResult
  /\ allocated = <<>>
  /\ clock = 0

SpecZone0 == InitZone0 /\ [][Next]_vars

(***************************************************************************)
(* What the claims speak of, stated on the image before (pre) and after    *)
(* (img) the last command.                                                 *)
(***************************************************************************)
PreSb == SbOf(pre)
PreWidth == max_filename_length(PreSb)
PreRoot == parse_inode(pre, PreSb, 1)

\* the byte offsets of the image
Offsets(im) == 0..(Len(im) * BLOCK_SIZE - 1)

\* the bytes of im and jm differ at most at the offsets of the set changed
SameOutside(im, jm, changed) ==
  \A z \in 0..(Len(im) - 1) :
    \/ im[z + 1] = jm[z + 1]
    \/ \A p \in (z * BLOCK_SIZE)..(z * BLOCK_SIZE + BLOCK_SIZE - 1) :
         p \in changed \/ ByteAt(im, p) = ByteAt(jm, p)

\* the directory slots of inode: <<i, k>> is entry k of the block of zone slot i
Slots(im, inode, width) ==
  {<<i, k>> \in (1..9) \X (1..SlotsPerBlock(width)) : inode.i_zone[i] # EMPTY}

SlotAt(inode, s, width) == inode.i_zone[s[1]] * BLOCK_SIZE + (s[2] - 1) * EntrySize(width)

SlotInode(im, inode, s, width) == UnpackH(ReadAt(im, SlotAt(inode, s, width), 2), 0)

SlotName(im, inode, s, width) == Rstrip(ReadAt(im, SlotAt(inode, s, width) + 2, width))

\* zone order, then in-block order
Before(s, t) == s[1] < t[1] \/ (s[1] = t[1] /\ s[2] < t[2])

\* the command ran create_new_file / create_new_directory
Called(op) == result.op = op /\ result.outcome # "NameTooLong"

\* C1: create_file on an image in which every inode 1..num_inodes has
\* nlinks != 0 reports NoFreeInodes and leaves every byte of the image unchanged.
C1_NoFreeInodesLeavesImage ==
  (Called("touch") /\ \A n \in 1..PreSb.num_inodes : parse_inode(pre, PreSb, n).i_nlinks # 0)
    => (result.outcome = "NoFreeInodes" /\ SameOutside(pre, img, {}))

C1_Witness ==
  /\ Called("touch")
  /\ \A n \in 1..PreSb.num_inodes : parse_inode(pre, PreSb, n).i_nlinks # 0
  /\ result.outcome = "NoFreeInodes"

\* C2: in a sequence of create_file / create_directory calls on one image no
\* two calls are given the same inode number, also when a call failed after its
\* inode was chosen.  (No command of the tool resets nlinks to 0.)
C2_NoInodeGivenTwice ==
  \A i, j \in 1..Len(allocated) :
    i # j => allocated[i].inode_number # allocated[j].inode_number

C2_Witness ==
  /\ Len(allocated) = 2
  /\ allocated[1].outcome \in {"DirectoryFull", "KeyError"}
  /\ allocated[1].inode_number # allocated[2].inode_number

\* C3 (the claim as stated): a create_directory(name) on an image with a free
\* inode, a free root slot and a free data block succeeds and leaves a new inode n
\* with directory mode, size 1024 and nlinks 2, a root entry (name -> n), and the
\* allocated block in zone slot 0 of n, holding (n, ".") and (1, "..") and zero
\* bytes after them.
C3_MkdirBuildsDirectory ==
  (/\ Called("mkdir")
   /\ \E n \in 1..PreSb.num_inodes : parse_inode(pre, PreSb, n).i_nlinks = 0
   /\ \E s \in Slots(pre, PreRoot, PreWidth) : SlotInode(pre, PreRoot, s, PreWidth) = 0
   /\ \E z \in PreSb.first_data_zone..(PreSb.num_zones - 1) : BlockIsZero(pre, z))
    => /\ result.outcome = "ok"
       /\ LET n == result.inode_number
              inode == parse_inode(img, PreSb, n)
          IN /\ inode.i_mode = S_IFDIR + S_IRUSR + S_IWUSR + S_IXUSR
             /\ inode.i_size = BLOCK_SIZE
             /\ inode.i_nlinks = 2
             /\ \E s \in Slots(img, PreRoot, PreWidth) :
                  /\ SlotInode(img, PreRoot, s, PreWidth) = n
                  /\ SlotName(img, PreRoot, s, PreWidth) = encode(result.name)
             /\ inode.i_zone[1] # EMPTY
             /\ BlockOf(img, inode.i_zone[1]) =
                  Ljust(PackEntry(n, Dot, PreWidth) \o PackEntry(1, DotDot, PreWidth), BLOCK_SIZE)

\* C4 (the claim as stated): a successful create_file(name) changes exactly two
\* regions of the image: the record of the allocated inode n, free before, becomes (mode
\* 0x8000|0x100|0x080|0x040, size 0, nlinks 1, nine zone slots 0), and one root
\* directory slot, free before, becomes (n, name zero-padded to the width); every
\* other byte, the root inode record among them, is unchanged.
C4_TouchChangesTwoRegions ==
  (result.op = "touch" /\ result.outcome = "ok")
    => LET n == result.inode_number
           inode == parse_inode(img, PreSb, n)
           record == InodeOffset(PreSb, n)..(InodeOffset(PreSb, n) + INODE_SIZE - 1)
       IN /\ n \in 2..PreSb.num_inodes
          /\ parse_inode(pre, PreSb, n).i_nlinks = 0
          /\ inode.i_mode = 33216 /\ inode.i_uid = 0 /\ inode.i_gid = 0
          /\ inode.i_size = 0 /\ inode.i_nlinks = 1
          /\ inode.i_zone = <<0, 0, 0, 0, 0, 0, 0, 0, 0>>
          /\ parse_inode(img, PreSb, 1) = PreRoot
          /\ \E s \in Slots(pre, PreRoot, PreWidth) :
               LET at == SlotAt(PreRoot, s, PreWidth)
               IN /\ SlotInode(pre, PreRoot, s, PreWidth) = 0
                  /\ ReadAt(img, at, EntrySize(PreWidth))
                       = PackH(n) \o Ljust(encode(result.name), PreWidth)
                  /\ SameOutside(pre, img, record \cup (at..(at + EntrySize(PreWidth) - 1)))

\* C5.  The block at logical position k (from 0) of a file: the direct slots
\* 0..6, then the entries of the indirect block in array order, then the
\* entries of the double indirect chain, outer index major, inner index minor;
\* 0 where the chain has a gap.
PerBlock == BLOCK_SIZE \div 2

LogicalZone(im, inode, k) ==
  LET ind == inode.i_zone[INDIRECT_ZONE_INDEX + 1]
      dbl == inode.i_zone[DOUBLE_INDIRECT_ZONE_INDEX + 1]
      j == k - NUM_DIRECT_ZONES - PerBlock
      outer == IF dbl = EMPTY THEN EMPTY
               ELSE UnpackH(ReadAt(im, dbl * BLOCK_SIZE + 2 * (j \div PerBlock), 2), 0)
  IN IF k < NUM_DIRECT_ZONES THEN inode.i_zone[k + 1]
     ELSE IF k < NUM_DIRECT_ZONES + PerBlock
          THEN IF ind = EMPTY THEN EMPTY
               ELSE UnpackH(ReadAt(im, ind * BLOCK_SIZE + 2 * (k - NUM_DIRECT_ZONES), 2), 0)
     ELSE IF outer = EMPTY THEN EMPTY
          ELSE UnpackH(ReadAt(im, outer * BLOCK_SIZE + 2 * (j % PerBlock), 2), 0)

BlocksNeeded(inode) == (inode.i_size + BLOCK_SIZE - 1) \div BLOCK_SIZE

NoGaps(im, inode) ==
  \A k \in 0..(BlocksNeeded(inode) - 1) : LogicalZone(im, inode, k) # EMPTY

\* the number of bytes of a sequence of reads
RECURSIVE BytesRead(_, _)
BytesRead(reads, n) ==
  IF n = 0 THEN 0
  ELSE IF n = 1 THEN reads[1][2]
  ELSE BytesRead(reads, n \div 2)
         + BytesRead([i \in 1..(n - n \div 2) |-> reads[n \div 2 + i]], n - n \div 2)

\* C5: for every inode whose zone chain has no gaps within the bytes needed,
\* read returns exactly size bytes, from exactly ceil(size / 1024) blocks visited
\* in the order direct, indirect, double indirect, each block giving
\* min(1024, bytes still remaining) bytes.
C5_ReadVisitsZonesInOrder ==
  (result.op = "cat" /\ result.outcome = "ok" /\ NoGaps(pre, result.file_inode))
    => /\ Len(result.reads) = BlocksNeeded(result.file_inode)
       /\ \A k \in 0..(BlocksNeeded(result.file_inode) - 1) :
            result.reads[k + 1] =
              <<LogicalZone(pre, result.file_inode, k),
                Min(BLOCK_SIZE, result.file_inode.i_size - k * BLOCK_SIZE)>>
       /\ BytesRead(result.reads, Len(result.reads)) = result.file_inode.i_size

\* size 2500 with zones [10, 11, 12, 0, ...] gives 1024 + 1024 + 452
C5_Witness ==
  /\ result.op = "cat" /\ result.outcome = "ok"
  /\ result.file_inode.i_size = 2500
  /\ result.file_inode.i_zone = <<10, 11, 12, 0, 0, 0, 0, 0, 0>>
  /\ result.reads = << <<10, 1024>>, <<11, 1024>>, <<12, 452>> >>
  /\ Len(FileBytes(img, result.reads)) = 2500
  /\ FileBytes(img, result.reads)[2049] = 12
  /\ FileBytes(img, result.reads)[2500] = 7

\* a read that went through the indirect block into the double indirect chain
C5_WitnessDouble ==
  /\ result.op = "cat" /\ result.outcome = "ok"
  /\ NoGaps(pre, result.file_inode)
  /\ Len(result.reads) = NUM_DIRECT_ZONES + PerBlock + 2
  /\ result.reads[Len(result.reads)] = <<11, 500>>

\* the append found the file: it did not end in NameNotFound
Appended == result.op = "append" /\ result.outcome \notin {"NameNotFound", "UnicodeDecodeError"}

PreFile == parse_inode(pre, PreSb, result.inode_number)

\* the bytes that the zones of a file can hold
Capacity(im, inode) ==
  BLOCK_SIZE * Len(read_file_data(im, [inode EXCEPT !.i_size = 268966912]))

\* the content of the file of the last command
Content(im) == FileBytes(im, read_file_data(im, parse_inode(im, PreSb, result.inode_number)))

\* C6 (the claim as stated): when the combined content fits in the zones the
\* file already owns, append completes and a following read of the file returns
\* the content read before the append followed by new_bytes.
C6_AppendThenRead ==
  (Appended /\ PreFile.i_size + Len(encode(result.data)) <= Capacity(pre, PreFile))
    => (result.outcome = "ok" /\ Content(img) = Content(pre) \o encode(result.data))

\* the zones that read resolves for the file, and what is not a data block of it
OwnZones(im, inode) ==
  LET reads == read_file_data(im, [inode EXCEPT !.i_size = 268966912])
  IN {reads[k][1] : k \in 1..Len(reads)}

\* C7 (the claim as stated): append on a file whose zones are full to capacity
\* completes, truncating what it writes: the only data blocks whose bytes change
\* are blocks of the file's own zone chain, and no other block is modified (the
\* inode record of the file apart).
C7_AppendFullFile ==
  (/\ Appended
   /\ PreFile.i_size > 0
   /\ PreFile.i_size = Capacity(pre, PreFile))
    => /\ result.outcome = "ok"
       /\ \A z \in 0..(Len(pre) - 1) :
            \/ z \in OwnZones(pre, PreFile)
            \/ img[z + 1] = pre[z + 1]
            \/ z = InodeOffset(PreSb, result.inode_number) \div BLOCK_SIZE

\* C8 (the claim as stated): after append(file, new_bytes) the inode record of
\* the file has size = old size + number of appended bytes, while mode, uid, gid,
\* nlinks and the nine zone slots are as before; no other inode record changes.
C8_AppendUpdatesInode ==
  Appended
    => /\ parse_inode(img, PreSb, result.inode_number) =
            [PreFile EXCEPT !.i_size = PreFile.i_size + Len(encode(result.data)),
                            !.i_time = parse_inode(img, PreSb, result.inode_number).i_time]
       /\ \A n \in 1..PreSb.num_inodes :
            n # result.inode_number => parse_inode(img, PreSb, n) = parse_inode(pre, PreSb, n)

\* the slots of the root directory that list shows: inode number not 0
ListedSlots == {s \in Slots(pre, PreRoot, PreWidth) : SlotInode(pre, PreRoot, s, PreWidth) # 0}

\* C9: list(root) returns exactly the zero-trimmed names of the root directory
\* entries whose inode number is not 0, in zone order then in-block order, and
\* never the name of a slot whose inode number is 0.
C9_ListShowsUsedSlots ==
  result.op = "ls"
    => /\ Len(result.names) = Cardinality(ListedSlots)
       /\ \A s \in ListedSlots :
            result.names[1 + Cardinality({t \in ListedSlots : Before(t, s)})]
              = SlotName(pre, PreRoot, s, PreWidth)

\* a root block holding only ("foo", 5) and empty slots lists as ["foo"]
C9_Witness ==
  /\ result.op = "ls"
  /\ result.names = <<Foo>>
  /\ ListedSlots = {<<1, 1>>}
  /\ SlotInode(pre, PreRoot, <<1, 1>>, PreWidth) = 5

\* a free slot that keeps a name is not listed
C9_WitnessStale ==
  /\ result.op = "ls"
  /\ \E s \in Slots(pre, PreRoot, PreWidth) :
       /\ SlotInode(pre, PreRoot, s, PreWidth) = 0
       /\ SlotName(pre, PreRoot, s, PreWidth) = Old
  /\ \A k \in 1..Len(result.names) : result.names[k] # Old

\* the slots of the root directory that hold name in a record that is in use
NamedSlots(name) ==
  {s \in ListedSlots : SlotName(pre, PreRoot, s, PreWidth) = encode(name)}

\* C10 (the claim as stated): lookup(root, name) returns the inode number of the
\* first entry, in zone order then in-block order, that is in use (inode number
\* not 0) and whose zero-trimmed name equals name, and reports not-found when
\* there is none; it never returns 0 and never matches a free slot.
C10_LookupSkipsFreeSlots ==
  result.op \in {"cat", "append"}
    => /\ result.dir_inode_number # 0
       /\ IF NamedSlots(result.dir_name) = {}
          THEN result.dir_inode_number = None /\ result.outcome = "NameNotFound"
          ELSE \E s \in NamedSlots(result.dir_name) :
                 /\ \A t \in NamedSlots(result.dir_name) : ~Before(t, s)
                 /\ result.dir_inode_number = SlotInode(pre, PreRoot, s, PreWidth)

\* the outcomes that the commands report as a failure of their own, or success
ControlledOutcomes ==
  {"none", "ok", "NameNotFound", "NoFreeInodes", "DirectoryFull", "NoFreeDataBlocks",
   "InodeOutOfRange", "NameTooLong"}

\* C11 (the claim as stated): every command either completes or ends in one of
\* the failure outcomes it reports itself; no run ends in an exception that
\* nothing catches.
C11_NoUncontrolledAbort == result.outcome \in ControlledOutcomes

\* the command chose an inode: create_new_file / create_new_directory went past
\* the scan of the inode table
Chose == result.op \in {"touch", "mkdir"} /\ result.inode_number # None

\* C12: the inode chosen by create_file and by create_directory is the lowest
\* number n in 1..num_inodes whose nlinks is 0 at the time of the call, whatever
\* the inode bitmap says; an inode with nlinks != 0 is never chosen.
C12_FirstFitInode ==
  Chose
    => /\ result.inode_number \in 1..PreSb.num_inodes
       /\ parse_inode(pre, PreSb, result.inode_number).i_nlinks = 0
       /\ \A n \in 1..(result.inode_number - 1) : parse_inode(pre, PreSb, n).i_nlinks # 0

\* inode 2 is chosen though a higher inode is free as well and the bitmap of
\* block 2 marks inode 2 as taken
C12_Witness ==
  /\ Chose
  /\ result.inode_number = 2
  /\ \E n \in 3..PreSb.num_inodes : parse_inode(pre, PreSb, n).i_nlinks = 0
  /\ ByteAt(pre, 2 * BLOCK_SIZE) % 8 >= 4

\* the free slots of the root directory, over all its zones
FreeSlots == {s \in Slots(pre, PreRoot, PreWidth) : SlotInode(pre, PreRoot, s, PreWidth) = 0}

\* C13 (the claim as stated): create_file / create_directory place the new root
\* entry in the first slot with inode number 0 over all allocated zones of the
\* root, in block order then in-block order, and report DirectoryFull only when no
\* zone of the root has a free slot.
C13_AllRootZonesScanned ==
  Chose
    => IF FreeSlots = {} THEN result.outcome = "DirectoryFull"
       ELSE \E s \in FreeSlots :
              /\ \A t \in FreeSlots : ~Before(t, s)
              /\ result.entry_at = SlotAt(PreRoot, s, PreWidth)

\* the zones of the data area whose 1024 bytes are all zero
ZeroZones(im) ==
  {z \in PreSb.first_data_zone..(PreSb.num_zones - 1) : BlockIsZero(im, z)}

\* C14 (the claim as stated): the data block given to a new directory is the
\* lowest zone z, first_data_zone <= z <= num_zones - 1, whose bytes are all
\* zero; when there is none create_directory reports NoFreeDataBlocks.
C14_LowestZeroZone ==
  (Chose /\ result.op = "mkdir" /\ result.entry_at # None)
    => IF ZeroZones(pre) = {} THEN result.outcome = "NoFreeDataBlocks"
       ELSE \E z \in ZeroZones(pre) :
              /\ \A y \in ZeroZones(pre) : z <= y
              /\ \E i \in 1..9 :
                   parse_inode(img, PreSb, result.inode_number).i_zone[i] = z

\* the 512 zone numbers that a block holds, and those of a sequence that are not 0
ZoneTable(im, block) ==
  LET block_data == BlockOf(im, block)
  IN [k \in 1..PerBlock |-> UnpackH(block_data, 2 * (k - 1))]

NonZero(zs) == SelectSeq(zs, LAMBDA z : z # EMPTY)

\* the zones that an inode resolves to: the direct slots, the entries of the
\* indirect block, the entries of the blocks that the double indirect block
\* names, each level in array order and without the entries that are 0
ResolvedZones(im, inode) ==
  LET ind == inode.i_zone[INDIRECT_ZONE_INDEX + 1]
      dbl == inode.i_zone[DOUBLE_INDIRECT_ZONE_INDEX + 1]
      outer == IF dbl = EMPTY THEN <<>> ELSE NonZero(ZoneTable(im, dbl))
  IN NonZero(SubSeq(inode.i_zone, 1, NUM_DIRECT_ZONES))
       \o (IF ind = EMPTY THEN <<>> ELSE NonZero(ZoneTable(im, ind)))
       \o Concat([k \in 1..Len(outer) |-> NonZero(ZoneTable(im, outer[k]))])

\* C15: when the zones of an inode are exhausted before size bytes are read,
\* read does not fail: it returns the bytes of the resolved zones in order,
\* min(size, 1024 * number of resolved zones) bytes in all, and a zone number 0
\* is skipped at every level and never read as block 0.
C15_ShortRead ==
  (result.op = "cat" /\ result.outcome = "ok")
    => LET zs == ResolvedZones(pre, result.file_inode)
           total == Min(result.file_inode.i_size, BLOCK_SIZE * Len(zs))
           n == (total + BLOCK_SIZE - 1) \div BLOCK_SIZE
       IN /\ Len(result.reads) = n
          /\ \A k \in 1..n :
               /\ result.reads[k] = <<zs[k], Min(BLOCK_SIZE, total - (k - 1) * BLOCK_SIZE)>>
               /\ result.reads[k][1] # 0
          /\ BytesRead(result.reads, Len(result.reads)) = total

\* size 2500 with zones [10, 0, 12, 0, ...]: the reads are 1024 bytes of block 10
\* and 1024 of block 12, fewer than size
C15_Witness ==
  /\ result.op = "cat" /\ result.outcome = "ok"
  /\ result.file_inode.i_size = 2500
  /\ result.file_inode.i_zone = <<10, 0, 12, 0, 0, 0, 0, 0, 0>>
  /\ result.reads = << <<10, 1024>>, <<12, 1024>> >>

\* a read that ends in the double indirect chain, past an entry 0 of the double
\* indirect block and past the entries 0 of the blocks it names
C15_WitnessDouble ==
  /\ result.op = "cat" /\ result.outcome = "ok"
  /\ ~NoGaps(pre, result.file_inode)
  /\ Len(result.reads) = NUM_DIRECT_ZONES + PerBlock + 3
  /\ result.reads[Len(result.reads)] = <<12, 500>>

\* an inode number that names a record of the inode table
InRange(n) == n \in 1..PreSb.num_inodes

\* C16 (the claim as stated): when the directory entry that cat or append
\* matched, for the directory or for the file, carries inode number 0 or a number
\* above num_inodes, the access is rejected with InodeOutOfRange; no record is
\* decoded or written for it.
C16_InodeNumberInRange ==
  result.op \in {"cat", "append"}
    => /\ (result.dir_inode_number # None /\ ~InRange(result.dir_inode_number))
            => result.outcome = "InodeOutOfRange"
       /\ (result.inode_number # None /\ ~InRange(result.inode_number))
            => result.outcome = "InodeOutOfRange"

\* C17 (the claim as stated): block 0 is never used as a data zone; on every
\* image, also one whose root inode has 0 in its first zone slot, create_file and
\* create_directory take no directory slot from block 0 and write no directory
\* entry into block 0.
C17_BlockZeroNeverUsed ==
  Chose
    => /\ img[1] = pre[1]
       /\ (result.entry_at = None \/ result.entry_at >= BLOCK_SIZE)

\* every inode in use other than the root is named by an entry of the root
AllNamed(im) ==
  LET sb_dict == SbOf(im)
      width == max_filename_length(sb_dict)
      root_inode == parse_inode(im, sb_dict, 1)
      named == {SlotInode(im, root_inode, s, width) : s \in Slots(im, root_inode, width)}
  IN \A n \in 2..sb_dict.num_inodes : parse_inode(im, sb_dict, n).i_nlinks # 0 => n \in named

\* C18 (the claim as stated): on an image in which every inode in use other than
\* the root is named by a root entry, a create_file / create_directory call, also
\* one that ends in DirectoryFull or NoFreeDataBlocks, leaves every inode in use
\* other than the root named by a root entry: a failed creation takes no inode.
C18_FailedCreationTakesNoInode ==
  (result.op \in {"touch", "mkdir"} /\ AllNamed(pre)) => AllNamed(img)

\* the blocks that an inode refers to: the zones it resolves to, its indirect
\* and double indirect block, and the blocks that the double indirect block names
Referenced(im, inode) ==
  LET ind == inode.i_zone[INDIRECT_ZONE_INDEX + 1]
      dbl == inode.i_zone[DOUBLE_INDIRECT_ZONE_INDEX + 1]
      zs == ResolvedZones(im, inode)
      outer == IF dbl = EMPTY THEN <<>> ELSE NonZero(ZoneTable(im, dbl))
  IN ({ind, dbl} \ {EMPTY}) \cup {zs[k] : k \in 1..Len(zs)}
       \cup {outer[k] : k \in 1..Len(outer)}

\* the blocks that the inodes in use refer to
InUse(im) ==
  UNION {Referenced(im, parse_inode(im, PreSb, n)) :
           n \in {m \in 1..PreSb.num_inodes : parse_inode(im, PreSb, m).i_nlinks # 0}}

\* C19 (the claim as stated): the block that create_directory allocates for the
\* new directory is one that no inode in use refers to, by its zone list or its
\* indirect blocks, at the time of the allocation.
C19_AllocatedBlockUnowned ==
  (Chose /\ result.op = "mkdir" /\ result.entry_at # None)
    => \E i \in 1..9 :
         LET z == parse_inode(img, PreSb, result.inode_number).i_zone[i]
         IN z # EMPTY /\ z \notin InUse(pre)

\* every regular file in use has its size within the blocks its zones resolve to
SizeFits(im) ==
  \A n \in 1..PreSb.num_inodes :
    LET inode == parse_inode(im, PreSb, n)
    IN (inode.i_nlinks # 0 /\ (inode.i_mode \div S_IFREG) % 2 = 1)
         => inode.i_size <= BLOCK_SIZE * Len(ResolvedZones(im, inode))

\* C20 (the claim as stated): create_file and append keep the size of every file
\* in use within 1024 * the number of blocks its zone chain resolves to; and an
\* append of data to a file as create_file leaves it (size 0, no zones) completes
\* so that a read of the file returns data.
C20_SizeWithinZones ==
  /\ (result.op \in {"touch", "append"} /\ SizeFits(pre)) => SizeFits(img)
  /\ (Appended /\ PreFile.i_size = 0 /\ PreFile.i_zone = NoZones)
       => (result.outcome = "ok" /\ Content(img) = encode(result.data))

\* the entries in use of the root directory have pairwise distinct names
DistinctNames(im) ==
  LET sb_dict == SbOf(im)
      width == max_filename_length(sb_dict)
      root_inode == parse_inode(im, sb_dict, 1)
      used == {s \in Slots(im, root_inode, width) : SlotInode(im, root_inode, s, width) # 0}
  IN \A s, t \in used :
       s # t => SlotName(im, root_inode, s, width) # SlotName(im, root_inode, t, width)

\* C21 (the claim as stated): on a root directory whose entries in use have
\* pairwise distinct names, a create_file / create_directory call leaves the
\* entries in use with pairwise distinct names, and a lookup of name in the root
\* after a successful create(name) returns the inode that the create allocated.
C21_NamesStayDistinct ==
  (result.op \in {"touch", "mkdir"} /\ DistinctNames(pre))
    => /\ DistinctNames(img)
       /\ result.outcome = "ok"
            => LET found == find_inode_of_directory(img, PreSb, result.name, PreWidth)
               IN ~found.raised /\ found.inode_number = result.inode_number

====
